---- MODULE Spec2Model ----
(***************************************************************************)
(* target-spec: Platform and TargetFeatures (target-spec/src/platform.rs). *)
(*                                                                         *)
(* A Platform is a Triple, a TargetFeatures value and a BTreeSet of flag   *)
(* names.  The module models the constructors, add_flags and the query     *)
(* methods as operators, and a caller that holds platform values in slots  *)
(* and calls those methods on them.                                        *)
(*                                                                         *)
(* Feature and flag names are strings; a string is modelled as the         *)
(* sequence of its bytes, so that the order BTreeSet keeps them in (the    *)
(* byte-wise lexicographic order of str) is computed, not assumed.         *)
(* Triple strings are only looked up, never ordered: they are TLA+         *)
(* strings.  Option<T> is a sequence of length 0 (None) or 1 (Some).       *)
(***************************************************************************)
EXTENDS Integers, Sequences, FiniteSets

\* Longest sequence of names handed to add_flags or TargetFeatures::features.
MaxBatch == 2

----------------------------------------------------------------------------
(* Strings and their order *)

\* "", "ab", "b": the empty name (a prefix of every name), and a longer name
\* that sorts before a shorter one.
Names == { <<>>, <<97, 98>>, <<98>> }

\* The names used where two platforms are held at once: "ab", "b".
PairNames == { <<97, 98>>, <<98>> }

\* Ordering of str: byte-wise lexicographic, a proper prefix first.
\* -1: a < b, 0: a = b, 1: a > b.
RECURSIVE str_cmp(_, _)
str_cmp(a, b) ==
    IF a = <<>> THEN (IF b = <<>> THEN 0 ELSE -1)
    ELSE IF b = <<>> THEN 1
    ELSE IF Head(a) < Head(b) THEN -1
    ELSE IF Head(a) > Head(b) THEN 1
    ELSE str_cmp(Tail(a), Tail(b))

Range(q) == { q[i] : i \in 1..Len(q) }

\* All sequences over U of length at most n: the iterators a caller passes.
SeqsUpTo(U, n) == UNION { [1..k -> U] : k \in 0..n }
\* The iterators of a caller that registers names one call at a time.
OneAtATime(U) == { <<>> } \cup { <<x>> : x \in U }

----------------------------------------------------------------------------
(* BTreeSet<Cow<'static, str>>: the keys in increasing order, no key twice *)

BTreeSet_new == <<>>

\* insert: walk to the key's place; an equal key already there is kept and
\* nothing is added.
\* As a Vec would: an absent key goes to the end, whatever its order.
BTreeSet_insert_push(set, key) ==
    IF \E i \in 1..Len(set) : set[i] = key THEN set ELSE Append(set, key)
RECURSIVE BTreeSet_insert(_, _)
BTreeSet_insert(set, key) ==
    IF set = <<>> THEN <<key>>
    ELSE LET c == str_cmp(key, Head(set)) IN
         IF c = 0 THEN set
         ELSE IF c < 0 THEN <<key>> \o set
         ELSE <<Head(set)>> \o BTreeSet_insert(Tail(set), key)

\* Extend::extend: insert each item the iterator yields, in turn.
RECURSIVE BTreeSet_extend(_, _)
BTreeSet_extend(set, items) ==
    IF items = <<>> THEN set
    ELSE BTreeSet_extend(BTreeSet_insert(set, Head(items)), Tail(items))

\* FromIterator::from_iter (collect).
BTreeSet_collect(items) == BTreeSet_extend(BTreeSet_new, items)

\* contains: search by the key order.
BTreeSet_contains(set, key) ==
    \E i \in 1..Len(set) : str_cmp(set[i], key) = 0

\* iter: the keys in order.
BTreeSet_iter(set) == set

\* PartialEq of BTreeSet: same length and equal items pairwise in iteration
\* order.
BTreeSet_eq(s, t) ==
    /\ Len(s) = Len(t)
    /\ \A i \in 1..Len(s) : str_cmp(s[i], t[i]) = 0

----------------------------------------------------------------------------
(* TargetFeatures *)

TF_Unknown == [variant |-> "Unknown", features |-> <<>>]
TF_All == [variant |-> "All", features |-> <<>>]
TF_Features(set) == [variant |-> "Features", features |-> set]

\* As collecting into a Vec would: the names as given.
TargetFeatures_features_vec(features) == TF_Features(features)
\* TargetFeatures::features
TargetFeatures_features(features) == TF_Features(BTreeSet_collect(features))

\* TargetFeatures::none
TargetFeatures_none == TF_Features(BTreeSet_new)

\* As if Unknown meant "no feature": Some(false) in place of None.
TargetFeatures_matches_unknown_false(self, feature) ==
    CASE self.variant = "Unknown" -> <<FALSE>>
      [] self.variant = "Features" -> <<BTreeSet_contains(self.features, feature)>>
      [] self.variant = "All" -> <<TRUE>>
\* TargetFeatures::matches -> Option<bool>
TargetFeatures_matches(self, feature) ==
    CASE self.variant = "Unknown" -> <<>>
      [] self.variant = "Features" -> <<BTreeSet_contains(self.features, feature)>>
      [] self.variant = "All" -> <<TRUE>>

\* derive(PartialEq) on the enum: same variant, and equal payloads.
TargetFeatures_eq(a, b) ==
    /\ a.variant = b.variant
    /\ a.variant = "Features" => BTreeSet_eq(a.features, b.features)

----------------------------------------------------------------------------
(* Result<T, E> and the Error enum *)

Ok(v) == [ok |-> TRUE, val |-> <<v>>, err |-> <<>>]
Err(e) == [ok |-> FALSE, val |-> <<>>, err |-> <<e>>]

\* Error::UnknownPlatformTriple(UnknownTripleError)
Error_UnknownPlatformTriple(e) == [kind |-> "UnknownPlatformTriple", source |-> e]
\* Error::CustomPlatformCreate(CustomCreateError)
Error_CustomPlatformCreate(e) == [kind |-> "CustomPlatformCreate", source |-> e]

\* Result::map_err with Error::UnknownPlatformTriple
map_err_UnknownPlatformTriple(r) ==
    IF r.ok THEN r ELSE Err(Error_UnknownPlatformTriple(r.err[1]))
\* Result::map_err with Error::CustomPlatformCreate
map_err_CustomPlatformCreate(r) ==
    IF r.ok THEN r ELSE Err(Error_CustomPlatformCreate(r.err[1]))

----------------------------------------------------------------------------
(* The Triple service (crate::Triple), consumed through its interface *)

\* The builtin platform table.
BuiltinTriples == { "x86_64-unknown-linux-gnu" }
\* Strings outside the table whose characteristics the heuristic can infer.
HeuristicTriples == { "armv5te-apple-darwin" }
\* The triple strings a caller passes; the last is recognised by nothing.
TripleStrs == BuiltinTriples \cup HeuristicTriples \cup { "not-a-triple" }

\* Custom target specification documents: one well-formed, one malformed.
WellFormedSpecs == { "{\"arch\":\"avr\",\"os\":\"none\"}" }
JsonDocs == WellFormedSpecs \cup { "{" }

MkTriple(str, kind, json) == [kind |-> kind, str |-> str, json |-> json]

\* Triple::new: the builtin table first, then the heuristic.
Triple_new(triple_str) ==
    IF triple_str \in BuiltinTriples
    THEN Ok(MkTriple(triple_str, "Builtin", <<>>))
    ELSE IF triple_str \in HeuristicTriples
    THEN Ok(MkTriple(triple_str, "Heuristic", <<>>))
    ELSE Err([kind |-> "UnknownTripleError", triple |-> triple_str])

\* Triple::new_strict: the builtin table only.
Triple_new_strict(triple_str) ==
    IF triple_str \in BuiltinTriples
    THEN Ok(MkTriple(triple_str, "Builtin", <<>>))
    ELSE Err([kind |-> "UnknownTripleError", triple |-> triple_str])

\* Triple::new_custom: any triple string, with a document that must validate.
Triple_new_custom(triple_str, json) ==
    IF json \in WellFormedSpecs
    THEN Ok(MkTriple(triple_str, "Custom", <<json>>))
    ELSE Err([kind |-> "CustomCreateError", triple |-> triple_str])

Triple_as_str(t) == t.str
Triple_is_builtin(t) == t.kind = "Builtin"
Triple_is_heuristic(t) == t.kind = "Heuristic"
Triple_is_custom(t) == t.kind = "Custom"
Triple_is_standard(t) == t.kind \in { "Builtin", "Heuristic" }
Triple_custom_json(t) == t.json
\* derive(PartialEq) on Triple.
Triple_eq(a, b) == a = b

\* Every Triple value a caller can hold.
TripleValues ==
    { Triple_new(s).val[1] : s \in { x \in TripleStrs : Triple_new(x).ok } }
    \cup { Triple_new_custom(s, j).val[1] : s \in TripleStrs, j \in WellFormedSpecs }

----------------------------------------------------------------------------
(* State *)

VARIABLES
    CURRENT_TARGET,          \* build script: the triple detected at build time
    CURRENT_TARGET_FEATURES, \* build script: the features detected at build time
    plat,    \* slot -> Option<Platform>: the platform values the caller holds
    born,    \* slot -> Option<Platform>: that platform as its constructor returned it
    added,   \* slot -> every name handed to add_flags on that platform so far
    ret      \* the most recent call: the method, its arguments and what it returned

vars == <<CURRENT_TARGET, CURRENT_TARGET_FEATURES, plat, born, added, ret>>

Slots == { 1, 2 }

----------------------------------------------------------------------------
(* Platform *)

MkPlatform(triple, target_features, flags) ==
    [triple |-> triple, target_features |-> target_features, flags |-> flags]

\* Platform::from_triple
Platform_from_triple(triple, target_features) ==
    MkPlatform(triple, target_features, BTreeSet_new)

\* Platform::new
Platform_new(triple_str, target_features) ==
    LET triple == map_err_UnknownPlatformTriple(Triple_new(triple_str)) IN
    IF ~triple.ok THEN triple
    ELSE Ok(Platform_from_triple(triple.val[1], target_features))

\* As if new_strict consulted Triple::new, heuristic included.
Platform_new_strict_heuristic(triple_str, target_features) ==
    LET triple == map_err_UnknownPlatformTriple(Triple_new(triple_str)) IN
    IF ~triple.ok THEN triple
    ELSE Ok(Platform_from_triple(triple.val[1], target_features))
\* Platform::new_strict
Platform_new_strict(triple_str, target_features) ==
    LET triple == map_err_UnknownPlatformTriple(Triple_new_strict(triple_str)) IN
    IF ~triple.ok THEN triple
    ELSE Ok(Platform_from_triple(triple.val[1], target_features))

\* As if current consulted the builtin table only.
Platform_current_strict ==
    LET triple == map_err_UnknownPlatformTriple(Triple_new_strict(CURRENT_TARGET)) IN
    IF ~triple.ok THEN triple
    ELSE LET target_features == TargetFeatures_features(CURRENT_TARGET_FEATURES) IN
         Ok(MkPlatform(triple.val[1], target_features, BTreeSet_new))
\* Platform::current
Platform_current ==
    LET triple == map_err_UnknownPlatformTriple(Triple_new(CURRENT_TARGET)) IN
    IF ~triple.ok THEN triple
    ELSE LET target_features == TargetFeatures_features(CURRENT_TARGET_FEATURES) IN
         Ok(MkPlatform(triple.val[1], target_features, BTreeSet_new))

\* As if new_custom wrapped its failure in the other error variant.
Platform_new_custom_unknown(triple_str, json, target_features) ==
    LET triple == map_err_UnknownPlatformTriple(Triple_new_custom(triple_str, json)) IN
    IF ~triple.ok THEN triple
    ELSE Ok(MkPlatform(triple.val[1], target_features, BTreeSet_new))
\* Platform::new_custom (feature "custom")
Platform_new_custom(triple_str, json, target_features) ==
    LET triple == map_err_CustomPlatformCreate(Triple_new_custom(triple_str, json)) IN
    IF ~triple.ok THEN triple
    ELSE Ok(MkPlatform(triple.val[1], target_features, BTreeSet_new))

\* As if add_flags assigned the flag set in place of extending it.
Platform_add_flags_assign(self, flags) ==
    [self EXCEPT !.flags = BTreeSet_collect(flags)]
\* As if add_flags extended the feature set in place of the flag set.
Platform_add_flags_features(self, flags) ==
    IF self.target_features.variant = "Features"
    THEN [self EXCEPT !.target_features.features = BTreeSet_extend(@, flags)]
    ELSE [self EXCEPT !.target_features = TargetFeatures_features(flags)]
\* Platform::add_flags
Platform_add_flags(self, flags) ==
    [self EXCEPT !.flags = BTreeSet_extend(@, flags)]

\* Platform::triple_str
Platform_triple_str(self) == Triple_as_str(self.triple)
\* Platform::flags
Platform_flags(self) == BTreeSet_iter(self.flags)
\* Platform::has_flag
Platform_has_flag(self, flag) == BTreeSet_contains(self.flags, flag)
\* As if is_standard asked for a builtin triple.
Platform_is_standard_builtin(self) == Triple_is_builtin(self.triple)
\* Platform::is_standard
Platform_is_standard(self) == Triple_is_standard(self.triple)
\* Platform::is_builtin
Platform_is_builtin(self) == Triple_is_builtin(self.triple)
\* Platform::is_heuristic
Platform_is_heuristic(self) == Triple_is_heuristic(self.triple)
\* Platform::is_custom
Platform_is_custom(self) == Triple_is_custom(self.triple)
\* Platform::triple
Platform_triple(self) == self.triple
\* Platform::target_features
Platform_target_features(self) == self.target_features
\* Platform::custom_json (feature "summaries")
Platform_custom_json(self) == Triple_custom_json(self.triple)

\* As a hand-written eq that leaves the flags out would.
Platform_eq_no_flags(a, b) ==
    /\ Triple_eq(a.triple, b.triple)
    /\ TargetFeatures_eq(a.target_features, b.target_features)
\* derive(PartialEq) on Platform: the three fields, in declaration order.
Platform_eq(a, b) ==
    /\ Triple_eq(a.triple, b.triple)
    /\ TargetFeatures_eq(a.target_features, b.target_features)
    /\ BTreeSet_eq(a.flags, b.flags)

----------------------------------------------------------------------------
(* The caller: what it passes, and the record of its most recent call *)

\* The ways a caller makes the TargetFeatures value it passes to a constructor.
NoTFArg == [src |-> "", names |-> <<>>]
TFArgs(Batches) ==
    { [src |-> v, names |-> <<>>] : v \in { "Unknown", "All", "none" } }
    \cup { [src |-> "features", names |-> q] : q \in Batches }

MakeTF(a) ==
    CASE a.src = "Unknown" -> TF_Unknown
      [] a.src = "All" -> TF_All
      [] a.src = "none" -> TargetFeatures_none
      [] a.src = "features" -> TargetFeatures_features(a.names)

\* A call: op the method and slot the platform it is made on or bound to;
\* tstr, json, triple, tfarg and names its arguments; ok and err the Result
\* of a constructor; out what a query returned.
NoCall ==
    [ok |-> TRUE, err |-> <<>>, json |-> "", triple |-> <<>>, names |-> <<>>,
     op |-> "", slot |-> 0, tstr |-> "", tfarg |-> NoTFArg, out |-> <<>>]

Call(op, s) == [NoCall EXCEPT !.op = op, !.slot = s]

\* What the build script may have detected: any triple string, with the
\* feature list "b", "ab".
Detected == { <<t, << <<98>>, <<97, 98>> >> >> : t \in TripleStrs }

Init ==
    /\ \E d \in Detected :
        /\ CURRENT_TARGET = d[1]
        /\ CURRENT_TARGET_FEATURES = d[2]
    /\ plat = [s \in Slots |-> <<>>]
    /\ born = [s \in Slots |-> <<>>]
    /\ added = [s \in Slots |-> {}]
    /\ ret = NoCall

\* `let platform = Platform::...`: a constructor's result r is bound to the
\* empty slot s, Some(platform) on Ok and nothing on Err.
Construct(s, r, call) ==
    /\ plat[s] = <<>>
    /\ plat' = [plat EXCEPT ![s] = r.val]
    /\ born' = [born EXCEPT ![s] = r.val]
    /\ added' = [added EXCEPT ![s] = {}]
    /\ ret' = [call EXCEPT !.ok = r.ok, !.err = r.err]
    /\ UNCHANGED <<CURRENT_TARGET, CURRENT_TARGET_FEATURES>>

New(s, TFA) ==
    \E t \in TripleStrs, a \in TFA :
        Construct(s, Platform_new(t, MakeTF(a)),
                  [Call("new", s) EXCEPT !.tstr = t, !.tfarg = a])

NewStrict(s, TFA) ==
    \E t \in TripleStrs, a \in TFA :
        Construct(s, Platform_new_strict(t, MakeTF(a)),
                  [Call("new_strict", s) EXCEPT !.tstr = t, !.tfarg = a])

Current(s) ==
    Construct(s, Platform_current, Call("current", s))

FromTriple(s, TFA) ==
    \E t \in TripleValues, a \in TFA :
        Construct(s, Ok(Platform_from_triple(t, MakeTF(a))),
                  [Call("from_triple", s) EXCEPT !.triple = <<t>>, !.tfarg = a])

NewCustom(s, TFA) ==
    \E t \in TripleStrs, j \in JsonDocs, a \in TFA :
        Construct(s, Platform_new_custom(t, j, MakeTF(a)),
                  [Call("new_custom", s) EXCEPT !.tstr = t, !.json = j, !.tfarg = a])

AddFlags(s, Batches) ==
    /\ plat[s] # <<>>
    /\ \E flags \in Batches :
        /\ plat' = [plat EXCEPT ![s] = <<Platform_add_flags(plat[s][1], flags)>>]
        /\ added' = [added EXCEPT ![s] = @ \cup Range(flags)]
        /\ ret' = [Call("add_flags", s) EXCEPT !.names = flags]
    /\ UNCHANGED <<CURRENT_TARGET, CURRENT_TARGET_FEATURES, born>>

\* A method taking &self: it returns `out` and leaves every value as it was.
Query(s, call, out) ==
    /\ plat[s] # <<>>
    /\ ret' = [call EXCEPT !.out = <<out>>]
    /\ UNCHANGED <<CURRENT_TARGET, CURRENT_TARGET_FEATURES, plat, born, added>>

TripleStr(s) == Query(s, Call("triple_str", s), Platform_triple_str(plat[s][1]))
Flags(s) == Query(s, Call("flags", s), Platform_flags(plat[s][1]))
HasFlag(s, U) ==
    \E flag \in U :
        Query(s, [Call("has_flag", s) EXCEPT !.names = <<flag>>],
              Platform_has_flag(plat[s][1], flag))
IsStandard(s) == Query(s, Call("is_standard", s), Platform_is_standard(plat[s][1]))
IsBuiltin(s) == Query(s, Call("is_builtin", s), Platform_is_builtin(plat[s][1]))
IsHeuristic(s) == Query(s, Call("is_heuristic", s), Platform_is_heuristic(plat[s][1]))
IsCustom(s) == Query(s, Call("is_custom", s), Platform_is_custom(plat[s][1]))
GetTriple(s) == Query(s, Call("triple", s), Platform_triple(plat[s][1]))
GetTargetFeatures(s) ==
    Query(s, Call("target_features", s), Platform_target_features(plat[s][1]))
CustomJson(s) == Query(s, Call("custom_json", s), Platform_custom_json(plat[s][1]))
\* platform.target_features().matches(feature)
Matches(s, U) ==
    \E feature \in U :
        Query(s, [Call("matches", s) EXCEPT !.names = <<feature>>],
              TargetFeatures_matches(Platform_target_features(plat[s][1]), feature))

\* platform1 == platform2
Compare ==
    /\ plat[1] # <<>>
    /\ plat[2] # <<>>
    /\ ret' = [Call("eq", 1) EXCEPT !.out = <<Platform_eq(plat[1][1], plat[2][1])>>]
    /\ UNCHANGED <<CURRENT_TARGET, CURRENT_TARGET_FEATURES, plat, born, added>>

\* One platform, every method, names drawn from Names.
Next ==
    \/ New(1, TFArgs(SeqsUpTo(Names, MaxBatch)))
    \/ NewStrict(1, TFArgs(SeqsUpTo(Names, MaxBatch)))
    \/ Current(1)
    \/ FromTriple(1, TFArgs(SeqsUpTo(Names, MaxBatch)))
    \/ NewCustom(1, TFArgs(SeqsUpTo(Names, MaxBatch)))
    \/ AddFlags(1, SeqsUpTo(Names, MaxBatch))
    \/ TripleStr(1)
    \/ Flags(1)
    \/ HasFlag(1, Names)
    \/ IsStandard(1)
    \/ IsBuiltin(1)
    \/ IsHeuristic(1)
    \/ IsCustom(1)
    \/ GetTriple(1)
    \/ GetTargetFeatures(1)
    \/ CustomJson(1)
    \/ Matches(1, Names)

Spec == Init /\ [][Next]_vars

\* Two platforms, built, given flags one at a time and compared, names drawn
\* from PairNames.
InitPair ==
    /\ CURRENT_TARGET \in BuiltinTriples
    /\ CURRENT_TARGET_FEATURES = << <<98>>, <<97, 98>> >>
    /\ plat = [s \in Slots |-> <<>>]
    /\ born = [s \in Slots |-> <<>>]
    /\ added = [s \in Slots |-> {}]
    /\ ret = NoCall

NextPair ==
    \/ \E s \in Slots :
        \/ New(s, TFArgs(OneAtATime(PairNames)))
        \/ NewStrict(s, TFArgs(OneAtATime(PairNames)))
        \/ Current(s)
        \/ FromTriple(s, TFArgs(OneAtATime(PairNames)))
        \/ NewCustom(s, TFArgs(OneAtATime(PairNames)))
        \/ AddFlags(s, OneAtATime(PairNames))
    \/ Compare

SpecPair == InitPair /\ [][NextPair]_vars

----------------------------------------------------------------------------
(* Properties *)

Live(s) == plat[s] # <<>>
Constructors == { "new", "new_strict", "current", "from_triple", "new_custom" }
Queries ==
    { "triple_str", "flags", "has_flag", "is_standard", "is_builtin", "is_heuristic",
      "is_custom", "triple", "target_features", "custom_json", "matches", "eq" }
\* The platform the most recent call was made on, or returned.
Subject == plat[ret.slot][1]
ErrKind == ret.err[1].kind

\* a < b in the lexicographic order of strings, stated on its own: a is a
\* proper prefix of b, or the first byte they differ in is smaller in a.
LexLess(a, b) ==
    \E k \in 0..Len(a) :
        /\ \A i \in 1..k : i <= Len(b) /\ a[i] = b[i]
        /\ \/ k = Len(a) /\ Len(b) > k
           \/ k < Len(a) /\ k < Len(b) /\ a[k + 1] < b[k + 1]

\* C1 as stated: whenever current() succeeds the platform is not heuristic,
\* and a detected triple outside the builtin table makes current() fail with
\* UnknownPlatformTriple.
C1_CurrentNeverHeuristic ==
    ret.op = "current" =>
        /\ ret.ok => ~Platform_is_heuristic(Subject)
        /\ CURRENT_TARGET \notin BuiltinTriples =>
               ~ret.ok /\ ErrKind = "UnknownPlatformTriple"

\* C1 as amended: current() returns a standard platform, never a custom one;
\* it succeeds exactly when the detected triple is builtin or heuristically
\* inferable, the platform being heuristic exactly in the second case, and its
\* only failure is UnknownPlatformTriple.
C1_CurrentIsStandard ==
    ret.op = "current" =>
        /\ ret.ok <=> CURRENT_TARGET \in BuiltinTriples \cup HeuristicTriples
        /\ ret.ok =>
            /\ Platform_is_standard(Subject)
            /\ ~Platform_is_custom(Subject)
            /\ Platform_is_heuristic(Subject) <=> CURRENT_TARGET \in HeuristicTriples
            /\ Platform_is_builtin(Subject) <=> CURRENT_TARGET \in BuiltinTriples
        /\ ~ret.ok => ErrKind = "UnknownPlatformTriple" /\ ~Live(ret.slot)

C1_Witness ==
    /\ ret.op = "current"
    /\ ret.ok
    /\ Platform_is_heuristic(Subject)
    /\ CURRENT_TARGET \notin BuiltinTriples

\* C2: whenever new_strict(t, f) succeeds, new(t, f) succeeds too and yields
\* the same platform, which is builtin and not heuristic; and a string new
\* accepts as heuristic is one new_strict rejects.
C2_StrictImpliesNew ==
    /\ (ret.op = "new_strict" /\ ret.ok) =>
           LET r == Platform_new(ret.tstr, MakeTF(ret.tfarg)) IN
           /\ r.ok
           /\ Platform_is_builtin(r.val[1])
           /\ ~Platform_is_heuristic(r.val[1])
           /\ Platform_is_builtin(Subject)
           /\ Platform_eq(r.val[1], Subject)
    /\ (ret.op = "new" /\ ret.ok /\ Platform_is_heuristic(Subject)) =>
           ~Platform_new_strict(ret.tstr, MakeTF(ret.tfarg)).ok

C2_Witness ==
    /\ ret.op = "new_strict"
    /\ ret.ok
    /\ ret.tstr \in BuiltinTriples
    /\ Platform_new(ret.tstr, MakeTF(ret.tfarg)).ok

\* What the variant of tf prescribes as the answer `out` for `name`.
MatchesByVariant(tf, name, out) ==
    /\ tf.variant = "Unknown" => out = <<>>
    /\ tf.variant = "All" => out = <<TRUE>>
    /\ tf.variant = "Features" => out = << name \in Range(tf.features) >>
    /\ tf.variant \in { "Unknown", "All", "Features" }

\* C3: matches is decided by the variant for every name, the empty one
\* included: None for Unknown, Some(true) for All, Some(name is in the set)
\* for Features.
C3_MatchesThreeValued ==
    /\ ret.op = "matches" =>
           MatchesByVariant(Subject.target_features, ret.names[1], ret.out[1])
    /\ \A s \in Slots : Live(s) =>
           \A name \in Names :
               MatchesByVariant(plat[s][1].target_features, name,
                                TargetFeatures_matches(plat[s][1].target_features, name))

C3_Witness ==
    /\ ret.op = "matches"
    /\ Subject.target_features.variant = "Unknown"
    /\ ret.names[1] = <<>>
    /\ ret.out[1] = <<>>

\* has_flag answers by the names handed to add_flags, none at construction.
C4_FlagsAreWhatWasAdded ==
    \A s \in Slots : Live(s) =>
        /\ \A name \in Names :
               Platform_has_flag(plat[s][1], name) <=> name \in added[s]
        /\ (ret.op \in Constructors /\ ret.slot = s) =>
               /\ Platform_flags(plat[s][1]) = <<>>
               /\ \A name \in Names : ~Platform_has_flag(plat[s][1], name)
        /\ (ret.op = "has_flag" /\ ret.slot = s) =>
               ret.out[1] = (ret.names[1] \in added[s])

\* No step takes a flag away.
C4_FlagsStaySet ==
    \A s \in Slots : \A name \in Names :
        (Live(s) /\ Platform_has_flag(plat[s][1], name)) =>
            (Live(s)' /\ Platform_has_flag(plat[s][1], name)')

\* C4: a constructor returns a platform with no flag; from then on
\* has_flag(name) is true exactly for the names handed to add_flags, and a
\* flag that is set stays set.
C4_HasFlag == [] C4_FlagsAreWhatWasAdded /\ [][C4_FlagsStaySet]_vars

C4_Witness ==
    /\ ret.op = "has_flag"
    /\ ret.out[1] = TRUE
    /\ ret.names[1] = <<>>
    /\ Cardinality(added[ret.slot]) = 2

\* flags() is a function of the set of names handed over: those names, each
\* once, in increasing order.
C5_FlagsSorted ==
    \A s \in Slots : Live(s) =>
        LET f == Platform_flags(plat[s][1]) IN
        /\ Range(f) = added[s]
        /\ Len(f) = Cardinality(added[s])
        /\ \A i \in 1..(Len(f) - 1) : LexLess(f[i], f[i + 1])
        /\ (ret.op = "flags" /\ ret.slot = s) => ret.out[1] = f

\* An add_flags call whose names are all present already.
C5_ReAddIsNoOp ==
    \A s \in Slots :
        (ret'.op = "add_flags" /\ ret'.slot = s /\ Range(ret'.names) \subseteq added[s]) =>
            /\ plat'[s] = plat[s]
            /\ Platform_flags(plat[s][1])' = Platform_flags(plat[s][1])

\* C5: flags() is the names handed to add_flags, each once, in strictly
\* increasing lexicographic order, whatever the order and the number of the
\* calls that registered them; a call that hands over only names already
\* present changes nothing.
C5_AddFlagsIdempotent == [] C5_FlagsSorted /\ [][C5_ReAddIsNoOp]_vars

\* "b" then "ab" in one call, on a platform that held "" already: flags()
\* yields "", "ab", "b".
C5_Witness ==
    /\ ret.op = "add_flags"
    /\ ret.names = << <<98>>, <<97, 98>> >>
    /\ Platform_flags(Subject) = << <<>>, <<97, 98>>, <<98>> >>

\* The same triple, the same TargetFeatures value, the same set of flags.
SameComponents(a, b) ==
    /\ a.triple = b.triple
    /\ a.target_features = b.target_features
    /\ Range(a.flags) = Range(b.flags)

\* C6: two platforms are equal exactly when their triples, their
\* TargetFeatures values and their sets of flags are; so two platforms that
\* were constructed equal and were handed the same names, in any order, are
\* equal, and are unequal when handed different sets of names.
C6_EqIsComponentwise ==
    (Live(1) /\ Live(2)) =>
        /\ Platform_eq(plat[1][1], plat[2][1]) <=> SameComponents(plat[1][1], plat[2][1])
        /\ (born[1] = born[2] /\ added[1] = added[2]) =>
               Platform_eq(plat[1][1], plat[2][1])
        /\ (born[1] = born[2] /\ added[1] # added[2]) =>
               ~Platform_eq(plat[1][1], plat[2][1])
        /\ ret.op = "eq" =>
               ret.out[1] = SameComponents(plat[1][1], plat[2][1])

C6_Witness ==
    /\ ret.op = "eq"
    /\ ret.out[1] = TRUE
    /\ Cardinality(added[1]) = 2
    /\ Cardinality(added[2]) = 2

\* The strings that are builtin or heuristically inferable.
Recognised == BuiltinTriples \cup HeuristicTriples

\* C7: a constructor yields a platform or an error, never both or neither.
\* A string that is neither builtin nor heuristically inferable makes new and
\* new_strict both fail with UnknownPlatformTriple; a heuristically inferable
\* one is accepted by new and makes new_strict fail with
\* UnknownPlatformTriple; new_custom fails only with CustomPlatformCreate;
\* from_triple never fails.
C7_ConstructorErrors ==
    ret.op \in Constructors =>
        /\ ret.ok <=> Live(ret.slot)
        /\ ret.ok <=> ret.err = <<>>
        /\ (ret.op \in { "new", "new_strict" } /\ ret.tstr \notin Recognised) =>
               /\ ~ret.ok
               /\ ErrKind = "UnknownPlatformTriple"
               /\ \A r \in { Platform_new(ret.tstr, MakeTF(ret.tfarg)),
                             Platform_new_strict(ret.tstr, MakeTF(ret.tfarg)) } :
                      ~r.ok /\ r.val = <<>> /\ r.err[1].kind = "UnknownPlatformTriple"
        /\ (ret.op = "new" /\ ret.tstr \in HeuristicTriples) => ret.ok
        /\ (ret.op = "new_strict" /\ ret.tstr \in HeuristicTriples) =>
               ~ret.ok /\ ErrKind = "UnknownPlatformTriple"
        /\ (ret.op = "new_custom" /\ ~ret.ok) => ErrKind = "CustomPlatformCreate"
        /\ ret.op = "from_triple" => ret.ok

C7_Witness ==
    /\ ret.op = "new_custom"
    /\ ~ret.ok
    /\ ErrKind = "CustomPlatformCreate"
    /\ ~Live(ret.slot)

ExactlyOne(a, b, c) ==
    \/ a /\ ~b /\ ~c
    \/ ~a /\ b /\ ~c
    \/ ~a /\ ~b /\ c

\* C8: every platform is exactly one of builtin, heuristic and custom, and
\* is standard exactly when it is builtin or heuristic, that is when it is
\* not custom; new returns a standard platform, new_strict a builtin one and
\* new_custom a custom one.
C8_OneProvenance ==
    \A s \in Slots : Live(s) =>
        LET p == plat[s][1] IN
        /\ ExactlyOne(Platform_is_builtin(p), Platform_is_heuristic(p),
                      Platform_is_custom(p))
        /\ Platform_is_standard(p) <=> (Platform_is_builtin(p) \/ Platform_is_heuristic(p))
        /\ Platform_is_standard(p) <=> ~Platform_is_custom(p)
        /\ (ret.slot = s /\ ret.ok) =>
            /\ ret.op = "new" => Platform_is_standard(p)
            /\ ret.op = "new_strict" => Platform_is_builtin(p)
            /\ ret.op = "new_custom" => Platform_is_custom(p)
        /\ (ret.slot = s /\ ret.op = "is_standard") =>
               ret.out[1] = (Platform_is_builtin(p) \/ Platform_is_heuristic(p))

C8_Witness ==
    /\ ret.op = "is_standard"
    /\ ret.out[1] = TRUE
    /\ Platform_is_heuristic(Subject)
    /\ ~Platform_is_builtin(Subject)

\* C9: the value features(names) makes answers Some(true) for the names
\* given and Some(false) for every other; it is the value any sequence with
\* the same set of names makes, and no other sequence's; none() is the value
\* features makes of no name: it answers Some(false) to every name and is not
\* Unknown.
C9_FeaturesIsMembership ==
    (ret.op \in Constructors /\ ret.ok /\ ret.op # "current") =>
        LET tf == Platform_target_features(Subject) IN
        /\ ret.tfarg.src = "features" =>
            /\ \A name \in Names :
                   TargetFeatures_matches(tf, name) = << name \in Range(ret.tfarg.names) >>
            /\ \A q \in SeqsUpTo(Names, MaxBatch) :
                   TargetFeatures_eq(TargetFeatures_features(q), tf)
                       <=> Range(q) = Range(ret.tfarg.names)
        /\ ret.tfarg.src = "none" =>
            /\ TargetFeatures_eq(tf, TargetFeatures_features(<<>>))
            /\ \A name \in Names : TargetFeatures_matches(tf, name) = <<FALSE>>
            /\ ~TargetFeatures_eq(tf, TF_Unknown)

\* features(["b", "b"]): a name given twice.
C9_Witness ==
    /\ ret.op \in Constructors
    /\ ret.ok
    /\ ret.tfarg = [src |-> "features", names |-> << <<98>>, <<98>> >>]
    /\ Platform_target_features(Subject).features = << <<98>> >>

\* Every query but flags and has_flag answers the same on p and on b.
SameAnswers(p, b) ==
    /\ Platform_triple(p) = Platform_triple(b)
    /\ Platform_triple_str(p) = Platform_triple_str(b)
    /\ Platform_is_standard(p) = Platform_is_standard(b)
    /\ Platform_is_builtin(p) = Platform_is_builtin(b)
    /\ Platform_is_heuristic(p) = Platform_is_heuristic(b)
    /\ Platform_is_custom(p) = Platform_is_custom(b)
    /\ Platform_target_features(p) = Platform_target_features(b)
    /\ \A name \in Names :
           TargetFeatures_matches(Platform_target_features(p), name)
               = TargetFeatures_matches(Platform_target_features(b), name)

\* A platform answers as it did when its constructor returned it.
C10_Frame ==
    \A s \in Slots : Live(s) =>
        /\ born[s] # <<>>
        /\ SameAnswers(plat[s][1], born[s][1])

\* A query step.
C10_QueriesChangeNothing ==
    ret'.op \in Queries => plat' = plat

\* C10: add_flags and the queries leave the triple and the TargetFeatures
\* value as the constructor set them, so triple_str, triple, the four
\* provenance answers, target_features and every matches answer are those of
\* the platform as constructed; a query changes no platform.
C10_AddFlagsOnlyFlags == [] C10_Frame /\ [][C10_QueriesChangeNothing]_vars

C10_Witness ==
    /\ ret.op = "add_flags"
    /\ Cardinality(added[ret.slot]) = 3
    /\ Subject.target_features.variant = "Features"
    /\ Subject.target_features.features = <<>>
    /\ Platform_is_heuristic(Subject)

====
